---- MODULE Spec2Model ----
(***************************************************************************)
(* Model of the EV5 validation engine of validate.py: parse_ev5_blocks     *)
(* (block parser) and validate_ev5_blocks (code index builder and          *)
(* schema-driven validator).  Text is modelled as sequences of one-        *)
(* character strings so that strip, upper, split and the header regular    *)
(* expression are computed character by character.                         *)
(***************************************************************************)
EXTENDS Integers, Sequences, FiniteSets, TLC

\* ------------------------------------------------------------------ bounds

\* Largest number of lines of an input file.
MaxLines == 3

\* ------------------------------------------------------------- text helpers

LowerLetters == <<"a","b","c","d","e","f","g","h","i","j","k","l","m",
                  "n","o","p","q","r","s","t","u","v","w","x","y","z">>

UpperLetters == <<"A","B","C","D","E","F","G","H","I","J","K","L","M",
                  "N","O","P","Q","R","S","T","U","V","W","X","Y","Z">>

\* Characters str.strip() and the regex class \s remove / match.
Whitespace == {" ", "\t"}

\* Characters of the regex class [A-Z ].
NameChars == {UpperLetters[n] : n \in 1..26} \cup {" "}

SetMin(S) == CHOOSE x \in S : \A y \in S : x <= y

SetMax(S) == CHOOSE x \in S : \A y \in S : x >= y

\* Code point order of the characters that occur in codes: space sorts
\* before the upper-case letters, which sort before the lower-case ones.
Ord(c) ==
    IF c = " " THEN 0
    ELSE IF \E n \in 1..26 : UpperLetters[n] = c
         THEN CHOOSE n \in 1..26 : UpperLetters[n] = c
         ELSE IF \E n \in 1..26 : LowerLetters[n] = c
              THEN 26 + (CHOOSE n \in 1..26 : LowerLetters[n] = c)
              ELSE 60

\* The upper-case letter of every lower-case letter.
UpperOf ==
    [c \in {LowerLetters[n] : n \in 1..26} |->
        UpperLetters[CHOOSE n \in 1..26 : LowerLetters[n] = c]]

\* str.upper(), one character.
UpperChar(c) == IF c \in DOMAIN UpperOf THEN UpperOf[c] ELSE c

\* str.upper()
RECURSIVE Upper(_)
Upper(s) == IF s = <<>> THEN <<>> ELSE <<UpperChar(Head(s))>> \o Upper(Tail(s))

\* str.lstrip() and str.rstrip()
RECURSIVE LStrip(_)
LStrip(s) ==
    IF s = <<>> THEN s
    ELSE IF Head(s) \in Whitespace THEN LStrip(Tail(s)) ELSE s

RECURSIVE RStrip(_)
RStrip(s) ==
    IF s = <<>> THEN s
    ELSE IF s[Len(s)] \in Whitespace THEN RStrip(SubSeq(s, 1, Len(s) - 1))
         ELSE s

\* str.strip(): drop leading and trailing whitespace.
Strip(s) == RStrip(LStrip(s))

\* str.split("|"): one part more than there are delimiters.
RECURSIVE Split(_)
Split(s) ==
    LET bars == {n \in 1..Len(s) : s[n] = "|"}
    IN  IF bars = {} THEN <<s>>
        ELSE <<SubSeq(s, 1, SetMin(bars) - 1)>>
                 \o Split(SubSeq(s, SetMin(bars) + 1, Len(s)))

\* All characters of s[a..b] are in the class cls.
AllIn(s, a, b, cls) == \A n \in a..b : s[n] \in cls

\* Length of the run of dashes the line starts with / ends with.
RECURSIVE LeadingDashes(_)
LeadingDashes(line) ==
    IF line = <<>> THEN 0
    ELSE IF Head(line) = "-" THEN 1 + LeadingDashes(Tail(line)) ELSE 0

RECURSIVE TrailingDashes(_)
TrailingDashes(line) ==
    IF line = <<>> THEN 0
    ELSE IF line[Len(line)] = "-"
         THEN 1 + TrailingDashes(SubSeq(line, 1, Len(line) - 1))
         ELSE 0

\* The regular expression ^-{2,}\s*([A-Z ]+)\s*-{2,}$ matches the line with
\* the group at line[a..b].  Neither \s nor [A-Z ] matches a dash and the
\* group is not empty, so each -{2,} takes a whole run of dashes: the d1
\* dashes the line starts with and the d2 dashes it ends with.
HeaderSplit(line, d1, d2, a, b) ==
    /\ d1 >= 2
    /\ d2 >= 2
    /\ d1 < a
    /\ a <= b
    /\ b <= Len(line) - d2
    /\ AllIn(line, d1 + 1, a - 1, Whitespace)
    /\ AllIn(line, a, b, NameChars)
    /\ AllIn(line, b + 1, Len(line) - d2, Whitespace)

\* Variant of HeaderMatch: the pattern with -{3,} in place of -{2,}.
HeaderMatchThreeDashes(line) ==
    LET d1 == LeadingDashes(line)
        d2 == TrailingDashes(line)
        R  == (d1 + 1)..(Len(line) - d2)
    IN  /\ d1 >= 3
        /\ d2 >= 3
        /\ {a \in R : \E b \in R : HeaderSplit(line, d1, d2, a, b)} # {}

\* re.match(...) is not None
HeaderMatch(line) ==
    LET d1 == LeadingDashes(line)
        d2 == TrailingDashes(line)
        R  == (d1 + 1)..(Len(line) - d2)
    IN  {a \in R : \E b \in R : HeaderSplit(line, d1, d2, a, b)} # {}

\* header_match.group(1): the quantifiers are greedy, so of the possible
\* matches the one found has the longest \s* before the group and then
\* the longest group.
HeaderGroup(line) ==
    LET d1 == LeadingDashes(line)
        d2 == TrailingDashes(line)
        R  == (d1 + 1)..(Len(line) - d2)
        a  == SetMax({x \in R : \E y \in R : HeaderSplit(line, d1, d2, x, y)})
        b  == SetMax({y \in R : HeaderSplit(line, d1, d2, a, y)})
    IN  SubSeq(line, a, b)

\* header_match.group(1).strip().upper()
BlockName(line) == Upper(Strip(HeaderGroup(line)))


\* Lexicographic order of str by code point, as sorted() compares.
StrLess(a, b) ==
    \/ Len(a) < Len(b) /\ SubSeq(b, 1, Len(a)) = a
    \/ \E n \in 1..Len(a) :
          /\ n <= Len(b)
          /\ SubSeq(a, 1, n - 1) = SubSeq(b, 1, n - 1)
          /\ Ord(a[n]) < Ord(b[n])

\* Variant of Sorted: the codes in descending order.
RECURSIVE SortedDescending(_)
SortedDescending(codes) ==
    IF codes = {} THEN <<>>
    ELSE LET most == CHOOSE c \in codes : \A d \in codes \ {c} : StrLess(d, c)
         IN  <<most>> \o SortedDescending(codes \ {most})

\* sorted(codes): the codes of the set in ascending order.
RECURSIVE Sorted(_)
Sorted(codes) ==
    IF codes = {} THEN <<>>
    ELSE LET least == CHOOSE c \in codes : \A d \in codes \ {c} : StrLess(c, d)
         IN  <<least>> \o Sorted(codes \ {least})

\* ", ".join(seq)
RECURSIVE Join(_)
Join(seq) ==
    IF seq = <<>> THEN <<>>
    ELSE IF Len(seq) = 1 THEN seq[1]
         ELSE seq[1] \o <<",", " ">> \o Join(Tail(seq))

\* ------------------------------------------------------------------ inputs

SAFETY == <<"S","A","F","E","T","Y">>

NOTES == <<"N","O","T","E","S">>

BELT_TYPE == <<"B","E","L","T","_","T","Y","P","E">>

SEAT == <<"S","E","A","T">>

UNKNOWN_FIELD == <<"U","N","K","N","O","W","N","_","F","I","E","L","D">>

\* Raw lines of an input file, as read (before line.strip()).
LineSafety == <<"-","-","-"," ","S","A","F","E","T","Y"," ","-","-","-">>

LineNotes == <<"-","-"," ","N","O","T","E","S"," ","-","-">>

LineSpaces == <<"-","-"," ","-","-">>

LineBad == <<"X","|","C","|","Y">>

LineGood == <<"X","|","A","|","Y">>

LineShort == <<" ","y"," ","|">>

LineComment == <<"\t","#","c">>

LineBlank == <<" ">>

LinePool == {LineSafety, LineNotes, LineSpaces, LineBad, LineGood,
             LineShort, LineComment, LineBlank}

\* All files of at most MaxLines lines.
Files == UNION {[1..n -> LinePool] : n \in 0..MaxLines}

\* schema.json as loaded: block name -> ordered (field name, column) pairs.
SchemaA == [b \in {SAFETY} |-> <<[field |-> BELT_TYPE, col |-> 2]>>]

SchemaRich ==
    [b \in {SAFETY, NOTES, <<>>} |->
        IF b = SAFETY
        THEN <<[field |-> <<" ","b","e","l","t","_","t","y","p","e">>, col |-> 2],
               [field |-> <<"S","e","a","t"," ">>, col |-> 1],
               [field |-> UNKNOWN_FIELD, col |-> 3]>>
        ELSE IF b = NOTES
             THEN <<[field |-> UNKNOWN_FIELD, col |-> 2],
                    [field |-> SEAT, col |-> 1]>>
             ELSE <<[field |-> BELT_TYPE, col |-> 1]>>]

\* A schema file whose column positions are not positive.
SchemaNonPositive ==
    [b \in {SAFETY} |-> <<[field |-> BELT_TYPE, col |-> 0],
                          [field |-> SEAT, col |-> -2]>>]

\* The "results" list of the code catalog: codeName and code as received.
CatalogA == <<[codeName |-> BELT_TYPE, code |-> <<"A">>],
              [codeName |-> BELT_TYPE, code |-> <<"B">>]>>

CatalogRich == <<[codeName |-> <<" ","b","e","l","t","_","t","y","p","e"," ">>, code |-> <<" ","b"," ">>],
                 [codeName |-> BELT_TYPE, code |-> <<"a">>],
                 [codeName |-> <<>>, code |-> <<"Z">>],
                 [codeName |-> SEAT, code |-> <<" ">>],
                 [codeName |-> <<"S","e","a","t">>, code |-> <<"y">>]>>

Configs == {<<SchemaA, CatalogA>>, <<SchemaRich, CatalogRich>>,
            <<SchemaNonPositive, CatalogRich>>}

\* ------------------------------------------------------------------- state

VARIABLES
    lines,                  \* the lines of the file at ev5_path
    schema,                 \* the schema argument
    valid_codes,            \* the valid_codes argument (catalog records)
    validate_field_types,   \* toggle argument
    validate_codes,         \* toggle argument
    pc,                     \* "parse", "lookup", "validate", "done", "error"
    pos,                    \* number of lines the parser has consumed
    current_block,          \* <<>> for None, <<name>> for a block name
    blocks,                 \* dict: block name -> list of record lines
    blocks_keys,            \* the dict's keys in insertion order
    seen,                   \* number of catalog records consumed
    valid_lookup,           \* dict: field type name -> set of codes
    bi,                     \* position of the block loop in blocks.items()
    line_num,               \* enumerate(rows, start=1) counter
    fi,                     \* position of the field loop in schema[block]
    checked_count,
    invalid_entries

inputs == <<lines, schema, valid_codes, validate_field_types, validate_codes>>

parser == <<pos, current_block, blocks, blocks_keys>>

index == <<seen, valid_lookup>>

cursor == <<bi, line_num, fi>>

result == <<checked_count, invalid_entries>>

vars == <<inputs, pc, parser, index, cursor, result>>

Init ==
    /\ lines \in Files
    /\ \E cfg \in Configs : schema = cfg[1] /\ valid_codes = cfg[2]
    /\ validate_field_types \in BOOLEAN
    /\ validate_codes \in BOOLEAN
    /\ pc = "parse"
    /\ pos = 0
    /\ current_block = <<>>
    /\ blocks = <<>>
    /\ blocks_keys = <<>>
    /\ seen = 0
    /\ valid_lookup = <<>>
    /\ bi = 1
    /\ line_num = 1
    /\ fi = 1
    /\ checked_count = 0
    /\ invalid_entries = <<>>

\* ------------------------------------------------------ parse_ev5_blocks

\* line = line.strip() of the line the loop is at.
CurLine == Strip(lines[pos + 1])

\* if not line or line.startswith("#")
IsSkipped(line) == IF line = <<>> THEN TRUE ELSE line[1] = "#"

\* if current_block: None and the empty string are both false.
Truthy(cur) == cur # <<>> /\ cur[1] # <<>>

\* blocks[name] = []: a new key goes last, an existing key keeps its place.
DictReset(d, name) == (name :> <<>>) @@ d

KeysAfterSet(keys, name) ==
    IF \E n \in 1..Len(keys) : keys[n] = name THEN keys ELSE Append(keys, name)

ParseSkip ==
    /\ pc = "parse"
    /\ pos < Len(lines)
    /\ IsSkipped(CurLine)
    /\ pos' = pos + 1
    /\ UNCHANGED <<inputs, pc, current_block, blocks, blocks_keys, index,
                   cursor, result>>

ParseHeader ==
    /\ pc = "parse"
    /\ pos < Len(lines)
    /\ ~IsSkipped(CurLine)
    /\ HeaderMatch(CurLine)
    /\ LET name == BlockName(CurLine)
       IN  /\ current_block' = <<name>>
           /\ blocks' = DictReset(blocks, name)
           /\ blocks_keys' = KeysAfterSet(blocks_keys, name)
    /\ pos' = pos + 1
    /\ UNCHANGED <<inputs, pc, index, cursor, result>>

ParseAppend ==
    /\ pc = "parse"
    /\ pos < Len(lines)
    /\ ~IsSkipped(CurLine)
    /\ ~HeaderMatch(CurLine)
    /\ Truthy(current_block)
    /\ blocks' = [blocks EXCEPT ![current_block[1]] = Append(@, CurLine)]
    /\ pos' = pos + 1
    /\ UNCHANGED <<inputs, pc, current_block, blocks_keys, index, cursor,
                   result>>

ParseDiscard ==
    /\ pc = "parse"
    /\ pos < Len(lines)
    /\ ~IsSkipped(CurLine)
    /\ ~HeaderMatch(CurLine)
    /\ ~Truthy(current_block)
    /\ pos' = pos + 1
    /\ UNCHANGED <<inputs, pc, current_block, blocks, blocks_keys, index,
                   cursor, result>>

ParseReturn ==
    /\ pc = "parse"
    /\ pos = Len(lines)
    /\ pc' = "lookup"
    /\ UNCHANGED <<inputs, parser, index, cursor, result>>

\* ------------------------------------------- validate_ev5_blocks: lookups

\* Variant of Normalize: trimmed but not upper-cased.
NormalizeNoUpper(s) == Strip(s)

\* v.get("codeName", "").strip().upper() and v.get("code", "").strip().upper()
Normalize(s) == Upper(Strip(s))

\* valid_lookup.setdefault(name, set()).add(code)
LookupAdd(d, name, code) ==
    (name :> ((IF name \in DOMAIN d THEN d[name] ELSE {}) \cup {code})) @@ d

BuildLookupAdd ==
    /\ pc = "lookup"
    /\ seen < Len(valid_codes)
    /\ LET name == Normalize(valid_codes[seen + 1].codeName)
           code == Normalize(valid_codes[seen + 1].code)
       IN  /\ name # <<>> /\ code # <<>>
           /\ valid_lookup' = LookupAdd(valid_lookup, name, code)
    /\ seen' = seen + 1
    /\ UNCHANGED <<inputs, pc, parser, cursor, result>>

BuildLookupSkip ==
    /\ pc = "lookup"
    /\ seen < Len(valid_codes)
    /\ LET name == Normalize(valid_codes[seen + 1].codeName)
           code == Normalize(valid_codes[seen + 1].code)
       IN  ~(name # <<>> /\ code # <<>>)
    /\ seen' = seen + 1
    /\ UNCHANGED <<inputs, pc, parser, valid_lookup, cursor, result>>

BuildLookupDone ==
    /\ pc = "lookup"
    /\ seen = Len(valid_codes)
    /\ pc' = "validate"
    /\ UNCHANGED <<inputs, parser, index, cursor, result>>

\* ----------------------------------------- validate_ev5_blocks: main loop

\* The block, rows, row, columns and schema entry the loops are at.
CurBlock == blocks_keys[bi]

CurRows == blocks[CurBlock]

\* parts = row.split("|")
CurParts == Split(CurRows[line_num])

CurFields == schema[CurBlock]

CurField == CurFields[fi]

\* idx = int(col) - 1
ColumnIndex(col) == col - 1

\* if idx >= len(parts): continue
BeyondRow(idx, parts) == idx >= Len(parts)

\* parts[idx] raises IndexError below -len(parts).
RaisesIndexError(idx, parts) == idx < 0 - Len(parts)

\* parts[idx]: a negative index counts from the end of the list.
Item(parts, idx) ==
    IF idx >= 0 THEN parts[idx + 1] ELSE parts[Len(parts) + idx + 1]

\* value = parts[idx].strip().upper()
CurValue == Upper(Strip(Item(CurParts, ColumnIndex(CurField.col))))

\* field_type_upper = field_type.strip().upper()
FieldTypeUpper(field_type) == Upper(Strip(field_type))

\* Variant of Counted: the counter is not incremented.
CountedNot(count) == count

\* checked_count += 1
Counted(count) == count + 1

\* Variant of FieldRejected: the toggle is not consulted.
FieldRejectedAlways(check_types, name, lookup) == name \notin DOMAIN lookup

\* if validate_field_types: if field_type_upper not in valid_lookup
FieldRejected(check_types, name, lookup) ==
    check_types /\ name \notin DOMAIN lookup

\* if validate_codes: if field_type_upper in valid_lookup:
\*     if value not in valid_lookup[field_type_upper]
CodeRejected(check_codes, name, value, lookup) ==
    /\ check_codes
    /\ name \in DOMAIN lookup
    /\ value \notin lookup[name]

\* expected = ", ".join(sorted(valid_lookup[field_type_upper]))
Expected(codes) == Join(Sorted(codes))

\* "ExpectedCodes" of a FIELD entry.
FieldTypeNotRecognized == <<"F","i","e","l","d"," ","t","y","p","e"," ","n","o","t"," ","r","e","c","o","g","n","i","z","e","d">>

\* Variant of LineNumber: enumerate(rows), numbering from 0.
LineNumberFromZero(n) == n - 1

\* enumerate(rows, start=1): the number of the row at position n (from 1).
LineNumber(n) == n

\* Variant of FieldEntry: no expected-codes description.
FieldEntryBlank(block, field_type, value, num, col) ==
    [Block |-> block, Field |-> field_type, Value |-> value, Line |-> num,
     Column |-> col, ExpectedCodes |-> <<>>,
     InvalidType |-> "FIELD", Status |-> "INVALID"]

FieldEntry(block, field_type, value, num, col) ==
    [Block |-> block, Field |-> field_type, Value |-> value, Line |-> num,
     Column |-> col, ExpectedCodes |-> FieldTypeNotRecognized,
     InvalidType |-> "FIELD", Status |-> "INVALID"]

CodeEntry(block, field_type, value, num, col, expected) ==
    [Block |-> block, Field |-> field_type, Value |-> value, Line |-> num,
     Column |-> col, ExpectedCodes |-> expected,
     InvalidType |-> "CODE", Status |-> "INVALID"]

\* The block loop is at a block.
AtBlock == pc = "validate" /\ bi <= Len(blocks_keys)

\* The row loop is at a row of a block the schema names.
AtRow == AtBlock /\ Upper(CurBlock) \in DOMAIN schema /\ line_num <= Len(CurRows)

\* The field loop is at a schema entry of the block.
AtField == AtRow /\ fi <= Len(CurFields)

\* The field loop is at an entry whose value it can read.
AtValue ==
    /\ AtField
    /\ ~BeyondRow(ColumnIndex(CurField.col), CurParts)
    /\ ~RaisesIndexError(ColumnIndex(CurField.col), CurParts)

\* The field loop is at an entry it counts as checked.
AtChecked == AtValue /\ CurValue # <<>>

ValidateSkipBlock ==
    /\ AtBlock
    /\ Upper(CurBlock) \notin DOMAIN schema
    /\ bi' = bi + 1
    /\ UNCHANGED <<inputs, pc, parser, index, line_num, fi, result>>

ValidateBlockEnd ==
    /\ AtBlock
    /\ Upper(CurBlock) \in DOMAIN schema
    /\ line_num > Len(CurRows)
    /\ bi' = bi + 1
    /\ line_num' = 1
    /\ fi' = 1
    /\ UNCHANGED <<inputs, pc, parser, index, result>>

ValidateRowEnd ==
    /\ AtRow
    /\ fi > Len(CurFields)
    /\ line_num' = line_num + 1
    /\ fi' = 1
    /\ UNCHANGED <<inputs, pc, parser, index, bi, result>>

FieldBeyondRow ==
    /\ AtField
    /\ BeyondRow(ColumnIndex(CurField.col), CurParts)
    /\ fi' = fi + 1
    /\ UNCHANGED <<inputs, pc, parser, index, bi, line_num, result>>

FieldIndexError ==
    /\ AtField
    /\ ~BeyondRow(ColumnIndex(CurField.col), CurParts)
    /\ RaisesIndexError(ColumnIndex(CurField.col), CurParts)
    /\ pc' = "error"
    /\ UNCHANGED <<inputs, parser, index, cursor, result>>

FieldEmpty ==
    /\ AtValue
    /\ CurValue = <<>>
    /\ fi' = fi + 1
    /\ UNCHANGED <<inputs, pc, parser, index, bi, line_num, result>>

FieldInvalid ==
    /\ AtChecked
    /\ FieldRejected(validate_field_types, FieldTypeUpper(CurField.field),
                     valid_lookup)
    /\ checked_count' = Counted(checked_count)
    /\ invalid_entries' =
          Append(invalid_entries,
                 FieldEntry(CurBlock, CurField.field, CurValue,
                            LineNumber(line_num), CurField.col))
    /\ fi' = fi + 1
    /\ UNCHANGED <<inputs, pc, parser, index, bi, line_num>>

CodeInvalid ==
    /\ AtChecked
    /\ ~FieldRejected(validate_field_types, FieldTypeUpper(CurField.field),
                      valid_lookup)
    /\ CodeRejected(validate_codes, FieldTypeUpper(CurField.field), CurValue,
                    valid_lookup)
    /\ checked_count' = Counted(checked_count)
    /\ invalid_entries' =
          Append(invalid_entries,
                 CodeEntry(CurBlock, CurField.field, CurValue,
                           LineNumber(line_num), CurField.col,
                           Expected(valid_lookup[FieldTypeUpper(CurField.field)])))
    /\ fi' = fi + 1
    /\ UNCHANGED <<inputs, pc, parser, index, bi, line_num>>

FieldAccepted ==
    /\ AtChecked
    /\ ~FieldRejected(validate_field_types, FieldTypeUpper(CurField.field),
                      valid_lookup)
    /\ ~CodeRejected(validate_codes, FieldTypeUpper(CurField.field), CurValue,
                     valid_lookup)
    /\ checked_count' = Counted(checked_count)
    /\ fi' = fi + 1
    /\ UNCHANGED <<inputs, pc, parser, index, bi, line_num, invalid_entries>>

ValidateReturn ==
    /\ pc = "validate"
    /\ bi > Len(blocks_keys)
    /\ pc' = "done"
    /\ UNCHANGED <<inputs, parser, index, cursor, result>>

Next ==
    \/ ParseSkip
    \/ ParseHeader
    \/ ParseAppend
    \/ ParseDiscard
    \/ ParseReturn
    \/ BuildLookupAdd
    \/ BuildLookupSkip
    \/ BuildLookupDone
    \/ ValidateSkipBlock
    \/ ValidateBlockEnd
    \/ ValidateRowEnd
    \/ FieldBeyondRow
    \/ FieldIndexError
    \/ FieldEmpty
    \/ FieldInvalid
    \/ CodeInvalid
    \/ FieldAccepted
    \/ ValidateReturn

Spec == Init /\ [][Next]_vars

\* ------------------------------------------------- reading the input file

\* The trimmed line at position p of the file.
Trimmed(p) == Strip(lines[p])

\* Position p holds a header line.
IsHeaderAt(p) ==
    /\ Trimmed(p) # <<>>
    /\ Trimmed(p)[1] # "#"
    /\ HeaderMatch(Trimmed(p))

\* Position p holds a record line: not blank, not a comment, not a header.
IsRecordAt(p) ==
    /\ Trimmed(p) # <<>>
    /\ Trimmed(p)[1] # "#"
    /\ ~HeaderMatch(Trimmed(p))

HeaderNameAt(p) == BlockName(Trimmed(p))

HeaderPositions == {p \in 1..Len(lines) : IsHeaderAt(p)}

\* The last header of the file that carries the name.
LastHeaderOf(name) ==
    SetMax({p \in HeaderPositions : HeaderNameAt(p) = name})

\* The position of the first header after position h, or one past the end.
NextHeaderAfter(h) ==
    IF \E q \in HeaderPositions : q > h
    THEN SetMin({q \in HeaderPositions : q > h})
    ELSE Len(lines) + 1

\* The trimmed record lines at positions p .. stop - 1, in file order.
RECURSIVE RecordsFrom(_, _)
RecordsFrom(p, stop) ==
    IF p >= stop THEN <<>>
    ELSE (IF IsRecordAt(p) THEN <<Trimmed(p)>> ELSE <<>>)
             \o RecordsFrom(p + 1, stop)

\* The record lines between the header at h and the next header.
SectionOf(h) == RecordsFrom(h + 1, NextHeaderAfter(h))

Parsed == pc # "parse"

Entries == {invalid_entries[j] : j \in 1..Len(invalid_entries)}

\* ---------------------------------------------------------------- claims

\* C1: in every state of a run of validate_ev5_blocks, and so in its result,
\* the checked count is at least the number of findings, whatever the
\* document, the schema, the catalog and the two toggles.
C1_CheckedAtLeastFindings == checked_count >= Len(invalid_entries)

\* C1 witness: a finished run with a finding and with more checked
\* occurrences than findings.
C1_Witness ==
    /\ pc = "done"
    /\ Len(invalid_entries) >= 1
    /\ checked_count > Len(invalid_entries)

C4_InvalidIndexSkipped ==
    [][(AtField /\ ~(0 <= CurField.col - 1 /\ CurField.col - 1 < Len(CurParts)))
          => /\ checked_count' = checked_count
             /\ invalid_entries' = invalid_entries
             /\ pc' # "error"]_vars

\* The blocks of the parsed document that the schema names.
SchemaBlocks == {b \in DOMAIN blocks : b \in DOMAIN schema}

\* The field occurrences of the document: block, line number in the block,
\* position of the field in the block's schema entry.
Occurrences ==
    {o \in UNION {{<<b, n, k>> : n \in 1..Len(blocks[b]), k \in 1..Len(schema[b])} :
                     b \in SchemaBlocks} : TRUE}

OccColumn(o) == schema[o[1]][o[3]].col

OccField(o) == schema[o[1]][o[3]].field

OccParts(o) == Split(blocks[o[1]][o[2]])

\* The column position of the occurrence is one of the line's columns.
OccInRow(o) == 1 <= OccColumn(o) /\ OccColumn(o) <= Len(OccParts(o))

\* The trimmed, upper-cased value of an occurrence that is in the row.
OccValue(o) == Upper(Strip(OccParts(o)[OccColumn(o)]))

\* The occurrences with a column in the row and a value that is not empty.
ValuedOccurrences == {o \in Occurrences : OccInRow(o) /\ OccValue(o) # <<>>}

\* The findings reported for the occurrence.
FindingsAt(o) ==
    {j \in 1..Len(invalid_entries) :
        /\ invalid_entries[j].Block = o[1]
        /\ invalid_entries[j].Line = o[2]
        /\ invalid_entries[j].Field = OccField(o)}

\* The text lists every code of the set once, in ascending order, joined
\* by ", ".
IsSortedList(text, codes) ==
    \E s \in [1..Cardinality(codes) -> codes] :
        /\ \A i, j \in 1..Cardinality(codes) : i < j => StrLess(s[i], s[j])
        /\ text = Join(s)

AllColumnsPositive ==
    \A b \in DOMAIN schema : \A k \in 1..Len(schema[b]) : schema[b][k].col >= 1

\* C5: in the result of a run with validate_codes on, every occurrence with
\* a value and a field name that is a key of the code index has exactly one
\* finding if its value is not in the allowed set, a CODE finding with the
\* block, block-local line, schema column, schema field name, trimmed
\* upper-cased value, the allowed codes ascending and joined by ", " and
\* status INVALID, and no finding if the value is allowed; the occurrences
\* with a value are all counted as checked.  Scenario A: "X|C|Y" gives one
\* CODE finding with ExpectedCodes "A, B"; Scenario B: "X|A|Y" gives no
\* finding and checked count 1.
C5_CodeFindings ==
    (pc = "done" /\ validate_codes) =>
      /\ \A o \in ValuedOccurrences :
            LET name == Upper(Strip(OccField(o)))
            IN  name \in DOMAIN valid_lookup =>
                  IF OccValue(o) \notin valid_lookup[name]
                  THEN /\ Cardinality(FindingsAt(o)) = 1
                       /\ \A j \in FindingsAt(o) :
                             /\ invalid_entries[j].Block = o[1]
                             /\ invalid_entries[j].Line = o[2]
                             /\ invalid_entries[j].Column = OccColumn(o)
                             /\ invalid_entries[j].Field = OccField(o)
                             /\ invalid_entries[j].Value = OccValue(o)
                             /\ invalid_entries[j].InvalidType = "CODE"
                             /\ invalid_entries[j].Status = "INVALID"
                             /\ IsSortedList(invalid_entries[j].ExpectedCodes,
                                             valid_lookup[name])
                  ELSE FindingsAt(o) = {}
      /\ checked_count >= Cardinality(ValuedOccurrences)
      /\ AllColumnsPositive => checked_count = Cardinality(ValuedOccurrences)
      /\ (schema = SchemaA /\ valid_codes = CatalogA
             /\ lines = <<LineSafety, LineBad>>)
            => /\ checked_count = 1
               /\ invalid_entries =
                     <<[Block |-> SAFETY, Line |-> 1, Column |-> 2,
                        Field |-> BELT_TYPE, Value |-> <<"C">>,
                        ExpectedCodes |-> <<"A",","," ","B">>,
                        InvalidType |-> "CODE", Status |-> "INVALID"]>>
      /\ (schema = SchemaA /\ valid_codes = CatalogA
             /\ lines = <<LineSafety, LineGood>>)
            => /\ checked_count = 1
               /\ invalid_entries = <<>>

\* C5 witness: Scenario A has run and reported its CODE finding.
C5_Witness ==
    /\ pc = "done"
    /\ validate_codes
    /\ schema = SchemaA
    /\ lines = <<LineSafety, LineBad>>
    /\ Len(invalid_entries) = 1
    /\ invalid_entries[1].InvalidType = "CODE"
    /\ invalid_entries[1].ExpectedCodes = <<"A",","," ","B">>

\* create_valid_codes_excel.fetch_valid_codes: the index of the results.
RECURSIVE FetchValidCodes(_)
FetchValidCodes(results) ==
    IF results = <<>> THEN <<>>
    ELSE LET item  == results[Len(results)]
             rest  == FetchValidCodes(SubSeq(results, 1, Len(results) - 1))
             field == Upper(Strip(item.codeName))
             code  == Upper(Strip(item.code))
         IN  IF field # <<>> /\ code # <<>>
             THEN (field :> ((IF field \in DOMAIN rest THEN rest[field] ELSE {})
                                \cup {code})) @@ rest
             ELSE rest

\* The catalog records whose name and code are not empty after trimming.
Usable == {k \in 1..Len(valid_codes) :
              /\ Strip(valid_codes[k].codeName) # <<>>
              /\ Strip(valid_codes[k].code) # <<>>}

\* The index holds the normalised code of every usable record under the
\* record's normalised name, and nothing else.
RoundTrip(idx) ==
    /\ \A k \in Usable :
          /\ Upper(Strip(valid_codes[k].codeName)) \in DOMAIN idx
          /\ Upper(Strip(valid_codes[k].code))
                \in idx[Upper(Strip(valid_codes[k].codeName))]
    /\ \A f \in DOMAIN idx : \A c \in idx[f] :
          \E k \in Usable :
             /\ Upper(Strip(valid_codes[k].codeName)) = f
             /\ Upper(Strip(valid_codes[k].code)) = c

\* C6: when the index has just been built it holds, for every catalog record with a
\* name and a code that are not empty after trimming, the trimmed
\* upper-cased code under the trimmed upper-cased name, and nothing for the
\* other records; and no CODE finding is reported for a document value that
\* equals a catalog code up to case and surrounding whitespace under a
\* schema field that equals the code's name up to case and whitespace.
C6_IndexRoundTrip ==
    pc \in {"validate", "done", "error"} =>
      /\ (pc = "validate" /\ cursor = <<1, 1, 1>>) =>
            /\ RoundTrip(valid_lookup)
            /\ RoundTrip(FetchValidCodes(valid_codes))
      /\ \A e \in Entries :
            e.InvalidType = "CODE" =>
               LET raw == Item(Split(blocks[e.Block][e.Line]), e.Column - 1)
               IN  ~\E k \in Usable :
                      /\ Upper(Strip(valid_codes[k].codeName)) = Upper(Strip(e.Field))
                      /\ Upper(Strip(valid_codes[k].code)) = Upper(Strip(raw))

\* C6 witness: the value "y " of the line " y |", under the schema field
\* "Seat " and the catalog record (Seat, y), was checked and not reported.
C6_Witness ==
    /\ pc = "done"
    /\ validate_codes
    /\ ~validate_field_types
    /\ schema = SchemaRich
    /\ lines = <<LineSafety, LineShort>>
    /\ <<"Y">> \in valid_lookup[SEAT]
    /\ checked_count = 1
    /\ invalid_entries = <<>>

\* The header that governs position p: the last header before it.
HeaderBefore(p) == SetMax({q \in HeaderPositions : q < p})

\* Finding e reports the record line at position p of the file, numbered
\* by the record lines of its block up to and including it.
ReportsLineAt(e, p) ==
    /\ IsRecordAt(p)
    /\ \E q \in HeaderPositions : q < p
    /\ HeaderNameAt(HeaderBefore(p)) = e.Block
    /\ HeaderBefore(p) = LastHeaderOf(e.Block)
    /\ e.Line = Cardinality({q \in (HeaderBefore(p) + 1)..p : IsRecordAt(q)})
    /\ ~RaisesIndexError(e.Column - 1, Split(Trimmed(p)))
    /\ ~BeyondRow(e.Column - 1, Split(Trimmed(p)))
    /\ Upper(Strip(Item(Split(Trimmed(p)), e.Column - 1))) = e.Value

IsFieldFinding(e) ==
    \/ e.InvalidType = "FIELD"
    \/ validate_field_types /\ Upper(Strip(e.Field)) \notin DOMAIN valid_lookup

\* C8 as stated: every FIELD finding carries the expected-codes description
\* "field type not recognized", the kind FIELD and the status INVALID.
C8_FieldFindingLowerCase ==
    \A e \in Entries :
       IsFieldFinding(e) =>
          /\ e.ExpectedCodes = <<"f","i","e","l","d"," ","t","y","p","e"," ","n","o","t"," ","r","e","c","o","g","n","i","z","e","d">>
          /\ e.InvalidType = "FIELD"
          /\ e.Status = "INVALID"

\* C8 amended: every FIELD finding carries the expected-codes description
\* "Field type not recognized" (capital F), the kind FIELD and the status
\* INVALID.
C8_FieldFinding ==
    \A e \in Entries :
       IsFieldFinding(e) =>
          /\ e.ExpectedCodes = <<"F","i","e","l","d"," ","t","y","p","e"," ","n","o","t"," ","r","e","c","o","g","n","i","z","e","d">>
          /\ e.InvalidType = "FIELD"
          /\ e.Status = "INVALID"

\* C8 witness: a finished run reported a FIELD finding for UNKNOWN_FIELD.
C8_Witness ==
    /\ pc = "done"
    /\ validate_field_types
    /\ \E e \in Entries : e.InvalidType = "FIELD" /\ e.Field = UNKNOWN_FIELD

\* C9: after parsing, the content list of every block is exactly the record
\* lines between the last header of its name and the next header, in file
\* order, for every name the header pattern accepts; the blocks are those
\* the headers name, so that lines before the first header are in no block.
C9_LinesInLatestBlock ==
    Parsed =>
      /\ DOMAIN blocks = {HeaderNameAt(p) : p \in HeaderPositions}
      /\ \A p \in HeaderPositions :
            p = LastHeaderOf(HeaderNameAt(p))
               => blocks[HeaderNameAt(p)] = SectionOf(p)

\* C10: after parsing, the content list of a block whose header occurs more
\* than once is exactly the record lines between the last occurrence and
\* the next header, and every finding of that block lies in that list.
C10_LastHeaderWins ==
    Parsed =>
      \A p \in HeaderPositions :
         (/\ p = LastHeaderOf(HeaderNameAt(p))
          /\ \E q \in HeaderPositions : q # p /\ HeaderNameAt(q) = HeaderNameAt(p))
            => /\ blocks[HeaderNameAt(p)] = SectionOf(p)
               /\ \A e \in Entries :
                     e.Block = HeaderNameAt(p) => e.Line \in 1..Len(SectionOf(p))

====
